---- MODULE Spec2Model ----
(***************************************************************************)
(* StataKernel (stata_kernel/kernel.py): the request handlers of the       *)
(* Jupyter kernel and the delimiter mode they carry between requests.      *)
(*                                                                         *)
(* A text is a sequence of source lines.  Every handler is one action that *)
(* runs from the idle kernel to the point where the handler returns; the   *)
(* calls it makes on its collaborators are recorded, in program order, in  *)
(* `trace`, and its return value in `ret`.  Reply is the base class taking *)
(* the return value and waiting for the next request.  last_ends is a      *)
(* history variable: the ends_sc of the last CodeManager that do_execute   *)
(* built for the user's code.                                              *)
(***************************************************************************)
EXTENDS Integers, Sequences, FiniteSets, TLC

VARIABLES sc_delimit_mode, linesize, execution_count, running,
          pc, req, trace, ret, last_ends

vars == <<sc_delimit_mode, linesize, execution_count, running,
          pc, req, trace, ret, last_ends>>

\* ------------------------------------------------------------------ bounds
MaxLen == 2
MaxCount == 2

\* ------------------------------------------------------------------- texts
\* source lines a user can type: a command, a command closed by `;`, a block
\* opener, a block closer and the two #delimit directives
Lines == {"di", "di;", "{", "}", "#delimit ;", "#delimit cr"}

Texts == UNION {[1..n -> Lines] : n \in 0..MaxLen}

\* the literal of post_do_hook
ProbeText == <<"di `c(linesize)'">>

\* what the session can print for the probe
ProbeOutputs == {<<"8", "0">>, <<" ", "1", "3", "2", " ">>}

ReturnCodes == {0, 198}

\* ------------------------------------------------------------ CodeManager
\* lexical state after a text: active delimiter mode, block nesting depth and
\* whether a command is still waiting for its `;`
RECURSIVE scan(_, _, _, _)
scan(text, mode, depth, pending) ==
    IF text = <<>>
    THEN [mode |-> mode, depth |-> depth, pending |-> pending]
    ELSE LET l == Head(text)
             rest == Tail(text)
         IN  CASE l = "#delimit ;"  -> scan(rest, TRUE, depth, FALSE)
               [] l = "#delimit cr" -> scan(rest, FALSE, depth, FALSE)
               [] l = "{"           -> scan(rest, mode, depth + 1, mode)
               [] l = "}"           -> scan(rest, mode, depth - 1, mode)
               [] l = "di;"         -> scan(rest, mode, depth, FALSE)
               [] OTHER             -> scan(rest, mode, depth, mode)

is_complete(text, mode) ==
    LET s == scan(text, mode, 0, FALSE)
    IN  s.depth = 0 /\ ~s.pending

ends_sc(text, mode) == scan(text, mode, 0, FALSE).mode

\* text_to_run: the commands with directives dropped and `;` removed
RECURSIVE get_text(_)
get_text(text) ==
    IF text = <<>> THEN <<>>
    ELSE LET l == Head(text)
         IN  IF l \in {"#delimit ;", "#delimit cr"} THEN get_text(Tail(text))
             ELSE <<(IF l = "di;" THEN "di" ELSE l)>> \o get_text(Tail(text))

\* CodeManager(code) without a mode argument
DefaultDelimitMode == FALSE

\* StataSession.do(...) without a display argument
DefaultDisplay == "display=True"

\* ----------------------------------------------------------- StataMagics
\* the code the dispatcher hands back: unchanged, without its first line, or
\* nothing
MagicOutputs(code) ==
    {code, <<>>} \cup (IF code = <<>> THEN {} ELSE {Tail(code)})

\* ------------------------------------------------------- int(res.strip())
IsSpace(c) == c \in {" ", "\n"}

RECURSIVE lstrip(_)
lstrip(s) == IF s # <<>> /\ IsSpace(Head(s)) THEN lstrip(Tail(s)) ELSE s

RECURSIVE rstrip(_)
rstrip(s) ==
    IF s # <<>> /\ IsSpace(s[Len(s)]) THEN rstrip(SubSeq(s, 1, Len(s) - 1))
    ELSE s

strip(s) == rstrip(lstrip(s))

DigitValue(c) ==
    CASE c = "0" -> 0 [] c = "1" -> 1 [] c = "2" -> 2 [] c = "3" -> 3
      [] c = "4" -> 4 [] c = "5" -> 5 [] c = "6" -> 6 [] c = "7" -> 7
      [] c = "8" -> 8 [] c = "9" -> 9

RECURSIVE int(_)
int(s) ==
    IF Len(s) = 1 THEN DigitValue(s[1])
    ELSE 10 * int(SubSeq(s, 1, Len(s) - 1)) + DigitValue(s[Len(s)])

\* ------------------------------------------------------- events and values
\* one call, message, assignment or return of a handler: what it is, the line
\* of kernel.py that makes it, the text and delimiter mode it carries, one
\* more argument, and the return code the session gave (stata.do only)
Ev(e, ln, t, m, a, r) ==
    [ev |-> e, line |-> ln, text |-> t, mode |-> m, arg |-> a, rc |-> r]

Ret(k, s, n, x, i, r) ==
    [kind |-> k, status |-> s, execution_count |-> n, extras |-> x,
     indent |-> i, restart |-> r]

NoRet == Ret("none", "", 0, FALSE, "", FALSE)

Req(o, c, s, p) == [op |-> o, code |-> c, silent |-> s, pre |-> p]

NoReq == Req("none", <<>>, FALSE, FALSE)

BoolStr(b) == IF b THEN "true" ELSE "false"

\* ------------------------------------------------------------------- Init
Init ==
    /\ sc_delimit_mode = FALSE
    /\ last_ends = FALSE
    /\ linesize \in {int(strip(o)) : o \in ProbeOutputs}
    /\ execution_count = 0
    /\ running = TRUE
    /\ pc = "idle"
    /\ req = NoReq
    /\ trace = <<>>
    /\ ret = NoRet

\* --------------------------------------------------------------- handlers
\* StataKernel.is_complete
kernel_is_complete(code, sc) == is_complete(code, sc)

IsCompleteEvent(ln, code, sc) ==
    Ev("is_complete", ln, code, sc, BoolStr(kernel_is_complete(code, sc)), 0)

\* mutant: the hint is sent but the return after it is missing
IncompleteTrace_falls_through(code, sc) ==
    <<IsCompleteEvent(92, code, sc),
      Ev("send_response", 93, <<>>, sc,
         "stderr: stata_kernel error: code entered was incomplete.", 0),
      Ev("magics.magic", 101, code, sc, "quit_early", 0),
      Ev("return", 105, <<>>, sc, "", 0)>>

\* the incomplete-input branch of do_execute
IncompleteTrace(code, sc) ==
    <<IsCompleteEvent(92, code, sc),
      Ev("send_response", 93, <<>>, sc,
         "stderr: stata_kernel error: code entered was incomplete.", 0),
      Ev("return", 98, <<>>, sc, "", 0)>>

IncompleteRet(count) == Ret("execute", "error", count, FALSE, "", FALSE)

\* code = self.magics.magic(code, self), and the quit_early it leaves
MagicEvent(out, sc, quit) ==
    Ev("magics.magic", 101, out, sc,
       IF quit THEN "quit_early" ELSE "continue", 0)

\* mutant: magics.post runs before the early return
QuitEarlyTrace_with_post(code, sc, out) ==
    <<IsCompleteEvent(92, code, sc), MagicEvent(out, sc, TRUE),
      Ev("magics.post", 114, <<>>, sc, "", 0),
      Ev("return", 105, <<>>, sc, "", 0)>>

QuitEarlyTrace(code, sc, out) ==
    <<IsCompleteEvent(92, code, sc), MagicEvent(out, sc, TRUE),
      Ev("return", 105, <<>>, sc, "", 0)>>

\* the value the dispatcher left in quit_early
QuitEarlyValue(count) == Ret("quit_early", "ok", count, TRUE, "", FALSE)

QuitEarlyRet(count) == QuitEarlyValue(count)

\* mutant: the carried mode is not passed to CodeManager
UserSplit_default_mode(code, sc) ==
    Ev("get_text", 109, code, DefaultDelimitMode, "", 0)

\* cm = CodeManager(code, self.sc_delimit_mode); cm.get_text(self.conf)
UserSplit(code, sc) == Ev("get_text", 109, code, sc, "", 0)

\* mutant: the user's chunks are sent with display=False
UserDo_no_display(code, rc) ==
    Ev("stata.do", 110, get_text(code), FALSE, "display=False", rc)

\* self.stata.do(text_to_run, md5, text_to_exclude=text_to_exclude)
UserDo(code, rc) == Ev("stata.do", 110, get_text(code), FALSE, DefaultDisplay, rc)

\* post_do_hook
ProbeSplit == Ev("get_text", 142, ProbeText, DefaultDelimitMode, "", 0)

ProbeDo(prc) ==
    Ev("stata.do", 143, get_text(ProbeText), FALSE, "display=False", prc)

\* mutant: the completions are refreshed only when the probe succeeded
PostDoHookTrace_refresh_on_success(prc) ==
    <<ProbeSplit, ProbeDo(prc)>>
    \o (IF prc = 0
        THEN <<Ev("set linesize", 146, <<>>, FALSE, "", 0),
               Ev("completions.refresh", 149, <<>>, FALSE, "", 0)>>
        ELSE <<>>)

PostDoHookTrace(prc) ==
    <<ProbeSplit, ProbeDo(prc)>>
    \o (IF prc = 0 THEN <<Ev("set linesize", 146, <<>>, FALSE, "", 0)>>
        ELSE <<>>)
    \o <<Ev("completions.refresh", 149, <<>>, FALSE, "", 0)>>

PostDoHookLinesize(prc, pres, old) ==
    IF prc = 0 THEN int(strip(pres)) ELSE old

\* mutant: the notice is sent whatever the silent flag
notice_sent_ignoring_silent(silent, ends, sc) == ends # sc

\* if (not silent) and (cm.ends_sc != self.sc_delimit_mode)
notice_sent(silent, ends, sc) == (~silent) /\ (ends # sc)

NoticeText(ends) ==
    IF ends THEN "stdout: delimiter now ;" ELSE "stdout: delimiter now cr"

\* mutant: the mode is committed only when the round trip succeeded
committed_mode_on_success(rc, ends, sc) == IF rc = 0 THEN ends ELSE sc

\* self.sc_delimit_mode = cm.ends_sc
committed_mode(rc, ends, sc) == ends

\* mutant: the return code is not looked at
ExecuteRet_always_ok(rc, count) == Ret("execute", "ok", count, TRUE, "", FALSE)

\* if rc: 'error' else: 'ok' with payload and user_expressions
ExecuteRet(rc, count) ==
    IF rc # 0 THEN Ret("execute", "error", count, FALSE, "", FALSE)
    ELSE Ret("execute", "ok", count, TRUE, "", FALSE)

ExecuteTrace(code, sc, silent, out, rc, prc) ==
    <<IsCompleteEvent(92, code, sc), MagicEvent(out, sc, FALSE),
      UserSplit(out, sc), UserDo(out, rc),
      Ev("magics.post", 114, <<>>, sc, "", 0)>>
    \o PostDoHookTrace(prc)
    \o (IF notice_sent(silent, ends_sc(out, sc), sc)
        THEN <<Ev("send_response", 121, <<>>, sc,
                  NoticeText(ends_sc(out, sc)), 0)>>
        ELSE <<>>)
    \o <<Ev("set sc_delimit_mode", 125, <<>>,
            committed_mode(rc, ends_sc(out, sc), sc), "", 0),
         Ev("return", 135, <<>>, sc, "", 0)>>

\* the base class increments the execution count before a request that is
\* not silent
CountFor(silent) == IF silent THEN execution_count ELSE execution_count + 1

DoExecuteIncomplete(code, silent) ==
    /\ ~kernel_is_complete(code, sc_delimit_mode)
    /\ trace' = IncompleteTrace(code, sc_delimit_mode)
    /\ ret' = IncompleteRet(CountFor(silent))
    /\ UNCHANGED <<sc_delimit_mode, linesize, last_ends>>

DoExecuteQuitEarly(code, silent, out) ==
    /\ kernel_is_complete(code, sc_delimit_mode)
    /\ trace' = QuitEarlyTrace(code, sc_delimit_mode, out)
    /\ ret' = QuitEarlyRet(CountFor(silent))
    /\ UNCHANGED <<sc_delimit_mode, linesize, last_ends>>

DoExecuteRun(code, silent, out, rc, prc, pres) ==
    /\ kernel_is_complete(code, sc_delimit_mode)
    /\ trace' = ExecuteTrace(code, sc_delimit_mode, silent, out, rc, prc)
    /\ linesize' = PostDoHookLinesize(prc, pres, linesize)
    /\ sc_delimit_mode' =
          committed_mode(rc, ends_sc(out, sc_delimit_mode), sc_delimit_mode)
    /\ last_ends' = ends_sc(out, sc_delimit_mode)
    /\ ret' = ExecuteRet(rc, CountFor(silent))

DoExecute ==
    /\ pc = "idle"
    /\ \E code \in Texts, silent \in BOOLEAN :
          /\ silent \/ execution_count < MaxCount
          /\ execution_count' = CountFor(silent)
          /\ req' = Req("do_execute", code, silent, sc_delimit_mode)
          /\ \/ DoExecuteIncomplete(code, silent)
             \/ \E out \in MagicOutputs(code) :
                   DoExecuteQuitEarly(code, silent, out)
             \/ \E out \in MagicOutputs(code), rc \in ReturnCodes,
                   prc \in ReturnCodes, pres \in ProbeOutputs :
                   DoExecuteRun(code, silent, out, rc, prc, pres)
    /\ pc' = "returned"
    /\ UNCHANGED running

PostDoHook ==
    /\ pc = "idle"
    /\ \E prc \in ReturnCodes, pres \in ProbeOutputs :
          /\ trace' = PostDoHookTrace(prc) \o <<Ev("return", 149, <<>>, FALSE, "", 0)>>
          /\ linesize' = PostDoHookLinesize(prc, pres, linesize)
    /\ req' = Req("post_do_hook", <<>>, FALSE, sc_delimit_mode)
    /\ ret' = Ret("post_do_hook", "", 0, FALSE, "", FALSE)
    /\ pc' = "returned"
    /\ UNCHANGED <<sc_delimit_mode, execution_count, running, last_ends>>

\* mutant: the check is made without the carried mode
DoIsCompleteRet_default_mode(code, sc) ==
    IF kernel_is_complete(code, DefaultDelimitMode)
    THEN Ret("do_is_complete", "complete", 0, FALSE, "", FALSE)
    ELSE Ret("do_is_complete", "incomplete", 0, FALSE, "    ", FALSE)

\* do_is_complete
DoIsCompleteRet(code, sc) ==
    IF kernel_is_complete(code, sc)
    THEN Ret("do_is_complete", "complete", 0, FALSE, "", FALSE)
    ELSE Ret("do_is_complete", "incomplete", 0, FALSE, "    ", FALSE)

DoIsComplete ==
    /\ pc = "idle"
    /\ \E code \in Texts :
          /\ req' = Req("do_is_complete", code, FALSE, sc_delimit_mode)
          /\ trace' = <<IsCompleteEvent(229, code, sc_delimit_mode),
                        Ev("return", 232, <<>>, sc_delimit_mode, "", 0)>>
          /\ ret' = DoIsCompleteRet(code, sc_delimit_mode)
    /\ pc' = "returned"
    /\ UNCHANGED <<sc_delimit_mode, linesize, execution_count, running, last_ends>>

\* is_complete called on its own
IsComplete ==
    /\ pc = "idle"
    /\ \E code \in Texts :
          /\ req' = Req("is_complete", code, FALSE, sc_delimit_mode)
          /\ trace' = <<IsCompleteEvent(248, code, sc_delimit_mode),
                        Ev("return", 248, <<>>, sc_delimit_mode, "", 0)>>
          /\ ret' = Ret("is_complete",
                        BoolStr(kernel_is_complete(code, sc_delimit_mode)),
                        0, FALSE, "", FALSE)
    /\ pc' = "returned"
    /\ UNCHANGED <<sc_delimit_mode, linesize, execution_count, running, last_ends>>

\* do_complete: code[:cursor_pos] and code[cursor_pos:(cursor_pos + 2)] go to
\* the completions index with the carried mode
DoComplete ==
    /\ pc = "idle"
    /\ \E code \in Texts :
          \E cursor_pos \in 0..Len(code) :
             /\ req' = Req("do_complete", code, FALSE, sc_delimit_mode)
             /\ trace' =
                   <<Ev("completions.get_env", 237,
                        SubSeq(code, 1, cursor_pos), sc_delimit_mode, "", 0),
                     Ev("completions.get", 245, <<>>, sc_delimit_mode, "", 0),
                     Ev("return", 241, <<>>, sc_delimit_mode, "", 0)>>
             /\ ret' = Ret("do_complete", "ok", cursor_pos, FALSE, "", FALSE)
    /\ pc' = "returned"
    /\ UNCHANGED <<sc_delimit_mode, linesize, execution_count, running, last_ends>>

\* mutant: shutting down resets the delimiter mode
DoShutdown_resets_mode ==
    /\ pc = "idle"
    /\ \E restart \in BOOLEAN :
          ret' = Ret("do_shutdown", "", 0, FALSE, "", restart)
    /\ req' = Req("do_shutdown", <<>>, FALSE, sc_delimit_mode)
    /\ trace' = <<Ev("stata.shutdown", 224, <<>>, FALSE, "", 0),
                  Ev("return", 225, <<>>, FALSE, "", 0)>>
    /\ running' = FALSE
    /\ sc_delimit_mode' = FALSE
    /\ pc' = "returned"
    /\ UNCHANGED <<linesize, execution_count, last_ends>>

\* do_shutdown
DoShutdown ==
    /\ pc = "idle"
    /\ \E restart \in BOOLEAN :
          ret' = Ret("do_shutdown", "", 0, FALSE, "", restart)
    /\ req' = Req("do_shutdown", <<>>, FALSE, sc_delimit_mode)
    /\ trace' = <<Ev("stata.shutdown", 224, <<>>, FALSE, "", 0),
                  Ev("return", 225, <<>>, FALSE, "", 0)>>
    /\ running' = FALSE
    /\ pc' = "returned"
    /\ UNCHANGED <<sc_delimit_mode, linesize, execution_count, last_ends>>

\* the base class takes the return value; the handler's locals are gone
Reply ==
    /\ pc = "returned"
    /\ pc' = "idle"
    /\ req' = NoReq
    /\ trace' = <<>>
    /\ ret' = NoRet
    /\ UNCHANGED <<sc_delimit_mode, linesize, execution_count, running, last_ends>>

Next ==
    \/ DoExecute
    \/ PostDoHook
    \/ DoIsComplete
    \/ IsComplete
    \/ DoComplete
    \/ DoShutdown
    \/ Reply

Spec == Init /\ [][Next]_vars

TypeOK ==
    /\ sc_delimit_mode \in BOOLEAN
    /\ last_ends \in BOOLEAN
    /\ linesize \in {int(strip(o)) : o \in ProbeOutputs}
    /\ execution_count \in 0..MaxCount
    /\ running \in BOOLEAN
    /\ pc \in {"idle", "returned"}
    /\ pc = "idle" => req = NoReq /\ trace = <<>> /\ ret = NoRet

\* ----------------------------------------------- reading a finished handler
Returned(op) == pc = "returned" /\ req.op = op

Events(e) == {i \in DOMAIN trace : trace[i].ev = e}

At(ln) == {i \in DOMAIN trace : trace[i].line = ln}

Names(tr) == [i \in DOMAIN tr |-> tr[i].ev]

\* do_execute got as far as the session's do() for the user's chunks
ReachedSession == Returned("do_execute") /\ At(110) # {}

UserRc == trace[CHOOSE i \in At(110) : TRUE].rc

ProbeRc == trace[CHOOSE i \in At(143) : TRUE].rc

UserCm == trace[CHOOSE i \in At(109) : TRUE]

\* cm.ends_sc of the CodeManager built for the user's code
SplitEnds == ends_sc(UserCm.text, UserCm.mode)

Notices == At(121)

Commits == Events("set sc_delimit_mode")
C2_NoticeIffChanged ==
    ReachedSession =>
        /\ sc_delimit_mode = SplitEnds
        /\ (Notices # {}) <=> (SplitEnds # req.pre)

\* C2 as amended: cm.ends_sc becomes the new sc_delimit_mode for every value
\* of silent, and the one-line notice ('delimiter now ;' or 'delimiter now
\* cr') is sent exactly when it differs from the carried mode and silent is
\* false
C2_NoticeIffChangedAndNotSilent ==
    ReachedSession =>
        /\ sc_delimit_mode = SplitEnds
        /\ Cardinality(Notices) =
              (IF (~req.silent) /\ SplitEnds # req.pre THEN 1 ELSE 0)
        /\ \A i \in Notices :
              /\ trace[i].ev = "send_response"
              /\ trace[i].arg = (IF SplitEnds THEN "stdout: delimiter now ;"
                                 ELSE "stdout: delimiter now cr")

\* a silent request that changed the mode and sent no notice
C2_Witness ==
    ReachedSession /\ req.silent /\ SplitEnds # req.pre /\ Notices = {}
       /\ sc_delimit_mode = SplitEnds

\* C3: when is_complete(code) is false under the carried mode, do_execute
\* returns (it does not raise) status 'error' with the current execution
\* count, after exactly one stderr message and no call to the dispatcher, the
\* splitter, the session, post_do_hook or the completions, and leaves
\* sc_delimit_mode as it was
C3_IncompleteInput ==
    (Returned("do_execute") /\ ~is_complete(req.code, req.pre)) =>
        /\ Names(trace) = <<"is_complete", "send_response", "return">>
        /\ trace[1].text = req.code /\ trace[1].mode = req.pre
        /\ trace[1].arg = "false"
        /\ trace[2].arg =
              "stderr: stata_kernel error: code entered was incomplete."
        /\ ret = Ret("execute", "error", execution_count, FALSE, "", FALSE)
        /\ sc_delimit_mode = req.pre

\* in `#delimit ;` mode, a command without its `;` was refused
C3_Witness ==
    /\ Returned("do_execute")
    /\ req.pre /\ req.code = <<"di">>
    /\ ret.status = "error"
    /\ Cardinality(Events("send_response")) = 1

\* C4 as stated: each text handed to CodeManager(...).get_text is a text for
\* which the completeness check returned true under the mode the split uses
C4_SplitOnlyChecked ==
    \A i \in Events("get_text") :
        \E j \in 1..(i - 1) :
            /\ trace[j].ev = "is_complete"
            /\ trace[j].arg = "true"
            /\ trace[j].text = trace[i].text
            /\ trace[j].mode = trace[i].mode

\* C4 as amended: do_execute calls the splitter only after is_complete has
\* accepted the request's text under the carried sc_delimit_mode, and splits,
\* under that same mode, the text the magic dispatcher returned for it; when
\* is_complete rejects the text neither the dispatcher nor the splitter is
\* called.  The probe of post_do_hook is a fixed literal, split under
\* CodeManager's default mode with no completeness check
C4_GateBeforeSplit ==
    /\ \A i \in At(109) :
          /\ Returned("do_execute")
          /\ trace[1].ev = "is_complete" /\ trace[1].arg = "true"
          /\ trace[1].text = req.code /\ trace[1].mode = req.pre
          /\ is_complete(req.code, req.pre)
          /\ trace[i].ev = "get_text" /\ trace[i].mode = req.pre
          /\ \E j \in 1..(i - 1) :
                /\ trace[j].ev = "magics.magic"
                /\ trace[j].arg = "continue"
                /\ trace[j].text = trace[i].text
    /\ (Returned("do_execute") /\ trace[1].arg = "false") =>
          Events("get_text") = {} /\ Events("magics.magic") = {}
    /\ \A i \in Events("get_text") \ At(109) :
          /\ trace[i].line = 142
          /\ trace[i].text = ProbeText
          /\ trace[i].mode = DefaultDelimitMode
          /\ \A j \in Events("is_complete") : trace[j].text # ProbeText

\* in `#delimit ;` mode the dispatcher handed back another text than the one
\* checked, and both it and the probe were split
C4_Witness ==
    /\ ReachedSession
    /\ req.pre
    /\ UserCm.text # req.code
    /\ At(142) # {}

\* C5: sc_delimit_mode is Newline at construction and always equals the
\* ends_sc of the most recent do_execute that reached the session (Newline
\* if there was none); no step other than such a do_execute changes it
C5_CarriedMode ==
    /\ sc_delimit_mode = FALSE
    /\ [](sc_delimit_mode = last_ends)
    /\ [][(sc_delimit_mode' # sc_delimit_mode) =>
             /\ pc = "idle" /\ pc' = "returned"
             /\ req'.op = "do_execute"
             /\ \E i \in DOMAIN trace' : trace'[i].line = 110]_vars

\* another handler than do_execute has run while the mode was `;`
C5_Witness ==
    /\ pc = "returned"
    /\ req.op \in {"do_is_complete", "is_complete", "do_complete",
                   "post_do_hook", "do_shutdown"}
    /\ sc_delimit_mode /\ req.pre

\* C6: do_is_complete returns {status: 'complete'} exactly when do_execute on
\* the same text in the same state would not take its incomplete-input
\* branch, and otherwise {status: 'incomplete'} with a four-space indent; the
\* check is made under the carried mode, which do_is_complete leaves alone
C6_RpcAgreesWithGate ==
    Returned("do_is_complete") =>
        /\ ret.status \in {"complete", "incomplete"}
        /\ \A silent \in BOOLEAN :
              (ret.status = "complete") <=>
                  ~ENABLED DoExecuteIncomplete(req.code, silent)
        /\ (ret.status = "incomplete") => ret.indent = "    "
        /\ trace[1].ev = "is_complete" /\ trace[1].mode = sc_delimit_mode
        /\ sc_delimit_mode = req.pre

\* in `#delimit ;` mode a text that is complete in newline mode is reported
\* incomplete
C6_Witness ==
    /\ Returned("do_is_complete")
    /\ req.pre /\ req.code = <<"di">>
    /\ ret.status = "incomplete"

C8_StatusFromRc ==
    ReachedSession =>
        /\ ret.kind = "execute"
        /\ ret.status = (IF UserRc # 0 THEN "error" ELSE "ok")
        /\ ret.extras <=> (UserRc = 0)
        /\ ret.execution_count = execution_count

\* the user's chunks passed and the probe failed
C8_Witness ==
    ReachedSession /\ UserRc = 0 /\ ProbeRc # 0 /\ ret.status = "ok"

\* the steps of a handler that are neither conditional nor before the session
FixedSteps(tr) ==
    SelectSeq(Names(tr),
              LAMBDA e : e \in {"stata.do", "magics.post", "completions.refresh",
                                "set sc_delimit_mode", "return"})

\* C9: a do_execute that passes the gate and is not ended by a magic runs, in
\* this order and once each: do() of the user's chunks, magics.post, the probe
\* do(), completions.refresh, the notice (if any), the assignment of
\* sc_delimit_mode, the return, also when the user's rc is non-zero; linesize
\* is set only when the probe's rc is zero
C9_StepOrder ==
    /\ [](ReachedSession =>
            /\ FixedSteps(trace) =
                  <<"stata.do", "magics.post", "stata.do",
                    "completions.refresh", "set sc_delimit_mode", "return">>
            /\ \A i \in At(110), j \in At(143) : i < j
            /\ \A i \in Notices :
                  /\ trace[i - 1].ev = "completions.refresh"
                  /\ trace[i + 1].ev = "set sc_delimit_mode"
            /\ Cardinality(Notices) <= 1
            /\ \A i \in Events("set linesize") :
                  /\ trace[i - 1].line = 143
                  /\ trace[i + 1].ev = "completions.refresh"
            /\ Cardinality(Events("set linesize")) =
                  (IF ProbeRc = 0 THEN 1 ELSE 0))
    /\ [][(linesize' # linesize) =>
             \E i \in DOMAIN trace' :
                 trace'[i].line = 143 /\ trace'[i].rc = 0]_vars

\* the user's chunks failed; the probe and the refresh still ran and the
\* notice was sent
C9_Witness ==
    /\ ReachedSession /\ UserRc # 0 /\ ProbeRc # 0
    /\ Events("completions.refresh") # {}
    /\ Notices # {}

\* C10: when the dispatcher sets quit_early for a text that passed the gate,
\* do_execute returns that value and does nothing else: no splitter, no
\* session do(), no magics.post, no probe, no refresh, no notice, and
\* sc_delimit_mode unchanged
C10_QuitEarly ==
    (Returned("do_execute")
       /\ \E i \in Events("magics.magic") : trace[i].arg = "quit_early") =>
        /\ Names(trace) = <<"is_complete", "magics.magic", "return">>
        /\ trace[1].arg = "true"
        /\ ret = QuitEarlyValue(execution_count)
        /\ sc_delimit_mode = req.pre

\* a magic ended a request whose text would have changed the mode
C10_Witness ==
    /\ Returned("do_execute")
    /\ ret.kind = "quit_early"
    /\ ends_sc(req.code, req.pre) # req.pre
====
